---- MODULE Spec2Model ----
(***************************************************************************)
(* Model of streamlit_hotel_bill.py: the invoice layout routine            *)
(* (create_pdf_bytes), the enrichment client (call_gemini_for_address,     *)
(* call_gemini_hotel_search), the synthetic generators, and the form       *)
(* submission block that orchestrates them.                                *)
(*                                                                         *)
(* Units.  Money is an integer number of mills (1/1000 rupee), so that a   *)
(* rate can carry a fraction of a cent; tax percent is an integer number   *)
(* of tenths of a percent; vertical positions are integer points relative  *)
(* to the translated content origin (negative = further down the page).    *)
(* Python's binary floating point is modelled by exact decimal arithmetic  *)
(* with round-half-even to the cent.  The form's debug toggle only adds     *)
(* st.write output and is left out.                                        *)
(***************************************************************************)
EXTENDS Integers, Sequences, FiniteSets, TLC

VARIABLES
    pc,                \* position of the running script / operation
    apiKey,            \* os.environ["GEMINI_API_KEY"]: "unset", "empty" or "set"
    form,              \* widget values of the submitted form (NoForm before)
    font_name,         \* registered font name or None
    font_tmp_path,     \* path of the staged font file or None
    tmpFiles,          \* temp font files that exist on disk
    addr,              \* resolved hotel address or None
    hotel_phone_final, \* resolved hotel phone or None
    pdf_bytes,         \* what create_pdf_bytes returned, or None
    ui,                \* sequence of messages / widgets shown to the user
    path,              \* sequence of helper functions the script has called
    exc,               \* exception that ended the script run, or None
    call               \* record of a direct function invocation, or NoCall

vars == <<pc, apiKey, form, font_name, font_tmp_path, tmpFiles, addr,
          hotel_phone_final, pdf_bytes, ui, path, exc, call>>

None == "None"
NoForm == [submitted |-> FALSE]
NoCall == [fn |-> "none"]
NoAddr == [kind |-> "unset", text |-> ""]
NoPdf == [status |-> "unset"]

(***************************************************************************)
(* Bounds of the model.                                                    *)
(***************************************************************************)
MaxItems == 2      \* longest item list enumerated exhaustively over ItemPool
MaxLines == 1      \* lines in a response text of the generative service
MaxTokLen == 2     \* characters in the price part of a free-text hotel line

Max(a, b) == IF a >= b THEN a ELSE b
Abs(a) == IF a >= 0 THEN a ELSE -a

\* All sequences over S of length 0..n.
SeqsUpTo(S, n) == UNION {[1..k -> S] : k \in 0..n}

(***************************************************************************)
(* Rounding.  round(x, 2) and the "{:,.2f}" format both round to the       *)
(* nearest cent, ties to even.  RoundDiv(n, d) is n/d rounded to the       *)
(* nearest integer, ties to even (d > 0; \div floors, % is non-negative).  *)
(***************************************************************************)
RoundDiv(n, d) ==
    LET q == n \div d
        r == n % d
    IN  IF 2 * r < d THEN q
        ELSE IF 2 * r > d THEN q + 1
        ELSE IF q % 2 = 0 THEN q ELSE q + 1

\* The value n/d mills rounded to 2 decimal places of a rupee, in mills.
Round2(n, d) == 10 * RoundDiv(n, 10 * d)

\* money(x, symbol): the amount as displayed, i.e. rounded to the cent.
money(x) == Round2(x, 1)

(***************************************************************************)
(* create_pdf_bytes                                                        *)
(***************************************************************************)
desc_max_chars == 50
LowWaterMark == -500     \* "if y < -500"
RowStep == 16            \* "y -= 16"
NewPageY == -40          \* "y = -40" after showPage
GuestBlockDrop == 76     \* "y = top_y - 76"
ItemsTitleDrop == 18
HeaderRowDrop == 12
HeaderRuleDrop == 6
FirstRowDrop == 14

NoLogo == [kind |-> "none"]
BadLogo == [kind |-> "unreadable"]
\* Rendered logo heights logo_h = (logo_w / iw) * ih, in points (even, so
\* that top_y = -logo_h / 2 is an integer number of points).
LogoHeights == {40, 748, 800, 1400}
Logos == {NoLogo, BadLogo} \cup {[kind |-> "image", h |-> x] : x \in LogoHeights}

\* Lines 315-336: top_y after the optional logo.  An unreadable image raises
\* inside the try and the handler resets top_y to 0.
LogoTopY(logo_file) ==
    IF logo_file.kind = "image" THEN -(logo_file.h \div 2) ELSE 0

\* Lines 356-387: the cursor where the first item row is drawn.
FirstRowY(top_y) ==
    top_y - GuestBlockDrop - ItemsTitleDrop - HeaderRowDrop - HeaderRuleDrop
          - FirstRowDrop

\* textwrap.shorten(desc, width=50, placeholder="..."): a description longer
\* than 50 characters is cut and marked.
Shorten(d) == [id |-> d.id, truncated |-> d.len > desc_max_chars]

\* One iteration of the row loop (lines 391-409) on loop state st =
\* [rows, y, page, subtotal] for the i-th item `it`: accumulate, draw the
\* row at the current cursor, then move the cursor and break the page.
EmitRow_DropAtBreak(st, i, it) ==
    LET amount == it.qty * it.rate
        row == [page |-> st.page, y |-> st.y, sl |-> i, desc |-> Shorten(it.desc),
                qty |-> it.qty, rate |-> money(it.rate), amount |-> money(amount)]
    IN  IF st.y - RowStep < LowWaterMark
        THEN [rows |-> st.rows, y |-> NewPageY, page |-> st.page + 1,
              subtotal |-> st.subtotal + amount]
        ELSE [rows |-> Append(st.rows, row), y |-> st.y - RowStep,
              page |-> st.page, subtotal |-> st.subtotal + amount]

EmitRow_ResetSubtotal(st, i, it) ==
    LET amount == it.qty * it.rate
        row == [page |-> st.page, y |-> st.y, sl |-> i, desc |-> Shorten(it.desc),
                qty |-> it.qty, rate |-> money(it.rate), amount |-> money(amount)]
        y2 == st.y - RowStep
    IN  IF y2 < LowWaterMark
        THEN [rows |-> Append(st.rows, row), y |-> NewPageY,
              page |-> st.page + 1, subtotal |-> 0]
        ELSE [rows |-> Append(st.rows, row), y |-> y2, page |-> st.page,
              subtotal |-> st.subtotal + amount]

EmitRow(st, i, it) ==
    LET amount == it.qty * it.rate
        subtotal == st.subtotal + amount
        row == [page |-> st.page, y |-> st.y, sl |-> i, desc |-> Shorten(it.desc),
                qty |-> it.qty, rate |-> money(it.rate), amount |-> money(amount)]
        y2 == st.y - RowStep
    IN  IF y2 < LowWaterMark
        THEN [rows |-> Append(st.rows, row), y |-> NewPageY,
              page |-> st.page + 1, subtotal |-> subtotal]
        ELSE [rows |-> Append(st.rows, row), y |-> y2, page |-> st.page,
              subtotal |-> subtotal]

\* The loop "for i, it in enumerate(items, start=1)".
RECURSIVE EmitRows(_, _, _)
EmitRows(st, items, i) ==
    IF i > Len(items) THEN st
    ELSE EmitRows(EmitRow(st, i, items[i]), items, i + 1)

\* Lines 411-413.
GstAmount_Truncated(subtotal, gst_percent) ==
    10 * ((subtotal * gst_percent) \div 10000)

GstAmount(subtotal, gst_percent) == Round2(subtotal * gst_percent, 1000)

GrandTotal(subtotal, gst_amount) == Round2(subtotal + gst_amount, 1)

\* Where drawing can fail outside the logo's try block: any canvas text
\* call (setFont / drawString with the chosen face) or the final c.save().
DrawFaults == {"none", "text", "save"}

\* create_pdf_bytes(..., items, gst_percent, font_name, logo_file): the
\* returned bytes, described by what was drawn, or the exception raised.
create_pdf_bytes(items, gst_percent, fname, logo_file, fault) ==
    IF fault # "none" THEN [status |-> "raise"]
    ELSE
    LET top_y == LogoTopY(logo_file)
        st0 == [rows |-> <<>>, y |-> FirstRowY(top_y), page |-> 1, subtotal |-> 0]
        st == EmitRows(st0, items, 1)
        gst_amount == GstAmount(st.subtotal, gst_percent)
        grand_total == GrandTotal(st.subtotal, gst_amount)
    IN  [status |-> "ok",
         header_font |-> IF fname # None THEN fname ELSE "Helvetica-Bold",
         regular_font |-> IF fname # None THEN fname ELSE "Helvetica",
         logo_drawn |-> logo_file.kind = "image",
         top_y |-> top_y,
         rows |-> st.rows,
         pages |-> st.page,
         totals_y |-> st.y - 8 - 16,
         subtotal |-> st.subtotal,
         subtotal_shown |-> money(st.subtotal),
         gst_amount |-> gst_amount,
         grand_total |-> grand_total]

(***************************************************************************)
(* Synthetic data generators                                               *)
(***************************************************************************)
\* A city string is a sequence of tokens: a word (lower-cased here) or the
\* token " " standing for a run of whitespace.  <<>> is the empty string.
Cities == { <<>>, <<" ">>, <<"mumbai">>, <<"mumbai", " ", "central">>,
            <<"nowhereville">> }

\* city.split(): the words.
Split(city) == SelectSeq(city, LAMBDA t : t # " ")

\* rand_mobile(): "+91-" followed by 10 digits; the digits are not read by
\* any code path, so one representative stands for all of them.
rand_mobile == "+91-9876543210"

\* Keys of the curated table city_addresses.
CuratedCities == {"mumbai", "delhi", "bangalore", "hyderabad", "chennai",
                  "kolkata", "pune", "indore"}

\* get_random_address(city).  c = city.strip().lower() is in the table when
\* the city is exactly one curated word, and starts with a key when its
\* first word is one; the house number, street and curated entry drawn at
\* random are represented by the kind of address returned.
get_random_address(city) ==
    IF city = <<>> THEN [kind |-> "placeholder", text |-> "12 Circuit Avenue, Tech Park, City"]
    ELSE LET w == Split(city)
         IN  IF Len(w) = 1 /\ w[1] \in CuratedCities
             THEN [kind |-> "curated", text |-> w[1]]
             ELSE IF Len(w) >= 1 /\ w[1] \in CuratedCities
             THEN [kind |-> "curated", text |-> w[1]]
             ELSE [kind |-> "templated", text |-> city]

\* random.uniform(-0.2, 0.2), in thousandths; both end points can be returned.
UniformSamples == {-200, -73, 0, 200}
PriceFloor == 500000     \* "max(500, ...)", in mills

\* fallback_hotel_suggestions(city, bill_amount) with the three uniform
\* draws us: city.split()[0] raises IndexError for a city without a word.
fallback_price_NoFloor(bill_amount, u) ==
    Round2(bill_amount * 1000 + bill_amount * u, 1000)

fallback_price(bill_amount, u) ==
    Max(PriceFloor, Round2(bill_amount * 1000 + bill_amount * u, 1000))

fallback_hotel_suggestions(city, bill_amount, us) ==
    IF Split(city) = <<>> THEN [status |-> "raise", exc |-> "IndexError"]
    ELSE [status |-> "ok",
          out |-> [i \in 1..3 |->
                     [name |-> Split(city)[1],
                      price |-> fallback_price(bill_amount, us[i]),
                      phone |-> rand_mobile]]]

(***************************************************************************)
(* External enrichment client                                              *)
(***************************************************************************)
KeyStates == {"unset", "empty", "set"}
\* "if not api_key": None and "" are both falsy.
KeyPresent(k) == k = "set"

\* What one client library does when tried (lines 134-143 / 146-154):
\*   import_error    the import raises: tried_any stays as it was
\*   configure_error imported, but configure raises before any request
\*   generate_error  the request to the service was made and raised
\*   text            the request returned a response text
LibOutcomes == {"import_error", "configure_error", "generate_error", "text"}
Skipped == "skipped"
Lib1 == "google.genai"
Lib2 == "google.generativeai"

Requested(o) == o \in {"generate_error", "text"}
Imported(o) == o \in {"configure_error", "generate_error", "text"}

\* The two try blocks: the second library is tried only "if raw_text is None".
TryLibs_RetryFirst(o1, o2) ==
    [tried_any |-> Imported(o1) \/ (o1 # "text" /\ Imported(o2)),
     got_text |-> o1 = "text" \/ o2 = "text",
     imports |-> IF o1 = "text" THEN 1 ELSE 2,
     svc |-> (IF Requested(o1) THEN <<Lib1>> ELSE <<>>) \o
             (IF o1 = "generate_error" THEN <<Lib1>> ELSE <<>>) \o
             (IF o1 # "text" /\ Requested(o2) THEN <<Lib2>> ELSE <<>>)]

TryLibs(o1, o2) ==
    IF o1 = "text"
    THEN [tried_any |-> TRUE, got_text |-> TRUE, imports |-> 1, svc |-> <<Lib1>>]
    ELSE [tried_any |-> Imported(o1) \/ Imported(o2),
          got_text |-> o2 = "text",
          imports |-> 2,
          svc |-> (IF Requested(o1) THEN <<Lib1>> ELSE <<>>) \o
                  (IF Requested(o2) THEN <<Lib2>> ELSE <<>>)]

NoAddress == [ret |-> [kind |-> "none", val |-> ""], imports |-> 0, svc |-> <<>>]

----
\* Address lookup.  A response text is a sequence of lines, each of a kind:
\*   blank      empty after strip
\*   json_ok    holds {"address": "<non-empty>"} that json.loads accepts
\*   json_empty holds {"address": ""}
\*   json_bad   matches the regex but json.loads raises
\*   addr       has a digit or a street keyword
\*   short      neither, under 120 characters
\*   long       neither, 120 characters or more
\*   quotes     only quote / bracket characters (stripped to "")
AddrLineKinds == {"blank", "json_ok", "json_empty", "json_bad", "addr",
                  "short", "long", "quotes"}
AddrTexts == SeqsUpTo(AddrLineKinds, MaxLines)
JsonAddrKinds == {"json_ok", "json_empty", "json_bad"}

\* Index of the first element of s, from i on, that is in S, or 0.
RECURSIVE FirstIdx(_, _, _)
FirstIdx(s, S, i) ==
    IF i > Len(s) THEN 0
    ELSE IF s[i] \in S THEN i
    ELSE FirstIdx(s, S, i + 1)

\* Lines 164-188 on a non-empty raw_text.
ParseAddress(text) ==
    LET j == FirstIdx(text, JsonAddrKinds, 1)
        k == FirstIdx(text, AddrLineKinds \ {"blank", "long"}, 1)
    IN  IF j # 0 /\ text[j] = "json_ok"
        THEN [kind |-> "value", val |-> "address-field"]
        ELSE IF k = 0 THEN [kind |-> "none", val |-> ""]
        ELSE IF text[k] = "quotes" THEN [kind |-> "value", val |-> ""]
        ELSE [kind |-> "value", val |-> "line:" \o text[k]]

call_gemini_for_address(key, o1, o2, text) ==
    IF ~KeyPresent(key) THEN NoAddress
    ELSE LET t == TryLibs(o1, o2)
             r == IF ~t.tried_any THEN [kind |-> "none", val |-> ""]
                  ELSE IF ~t.got_text \/ text = <<>> THEN [kind |-> "none", val |-> ""]
                  ELSE ParseAddress(text)
         IN  [ret |-> r, imports |-> t.imports, svc |-> t.svc]

----
\* Hotel search.  A response text has two views that the code reads:
\*   json   what re.search(r"(\[\s*\{.*?\}\s*\])") and json.loads make of it
\*   lines  its lines, as the free-text loop reads them
JsonAbsent == [kind |-> "absent"]
JsonInvalid == [kind |-> "invalid"]
\* Entries of a JSON array:
\*   ok          an object with name, numeric approx_price and phone
\*   no_phone    an object without phone
\*   no_price    an object without approx_price and price
\*   bad_price   an object whose approx_price is a non-numeric string
\*   not_object  a string or number (h.get raises AttributeError)
JsonSamples ==
    {JsonAbsent, JsonInvalid} \cup
    {[kind |-> "array", entries |-> e] :
        e \in { <<"ok">>, <<"no_phone", "no_price">>, <<"ok", "not_object", "ok">>,
                <<"bad_price">> }}

\* Characters of the text between the first and the second dash of a line:
\* a digit, a comma, a full stop (or any other character).
TokChars == {"3", ",", "."}
PriceTokens == SeqsUpTo(TokChars, MaxTokLen)
HotelLines ==
    {[kind |-> "blank"], [kind |-> "nodash"]} \cup
    {[kind |-> "dashed", tok |-> t, phone |-> ph] :
        t \in PriceTokens, ph \in BOOLEAN}
HotelTexts ==
    {[json |-> j, lines |-> l] :
        j \in JsonSamples, l \in SeqsUpTo(HotelLines, MaxLines)}
NoText == [json |-> JsonAbsent, lines |-> <<>>]

Digits == {"3"}                \* \d
IsDigit(ch) == ch \in Digits

\* End of the maximal run of characters in S that starts at i (i - 1 when
\* s[i] is not in S).
RECURSIVE RunEnd(_, _, _)
RunEnd(s, S, i) ==
    IF i <= Len(s) /\ s[i] \in S THEN RunEnd(s, S, i + 1) ELSE i - 1

\* re.search(r"([\d,]+(?:\.\d+)?)", tok): the leftmost, greedy match, as
\* [from, to] (from = 0 when there is none).
PriceMatch(tok) ==
    LET InRun == Digits \cup {","}
        i == FirstIdx(tok, InRun, 1)
    IN  IF i = 0 THEN [from |-> 0, to |-> 0]
        ELSE LET j == RunEnd(tok, InRun, i)
                 k == IF j + 1 <= Len(tok) /\ tok[j + 1] = "."
                      THEN RunEnd(tok, Digits, j + 2) ELSE j
             IN  [from |-> i, to |-> IF k >= j + 2 THEN k ELSE j]

\* float(s) for s made of digits and at most one full stop: the value in
\* mills (to three decimals), or a ValueError when s holds no digit ("" is
\* not a number).
RECURSIVE DigitsValue(_, _)
DigitsValue(s, acc) ==
    IF s = <<>> THEN acc ELSE DigitsValue(Tail(s), 10 * acc + 3)

Pow10(n) == IF n = 0 THEN 1 ELSE IF n = 1 THEN 10 ELSE IF n = 2 THEN 100 ELSE 1000

Float(s) ==
    LET dot == FirstIdx(s, {"."}, 1)
        ip == IF dot = 0 THEN s ELSE SubSeq(s, 1, dot - 1)
        fp == IF dot = 0 THEN <<>> ELSE SubSeq(s, dot + 1, Len(s))
        n == IF Len(fp) < 3 THEN Len(fp) ELSE 3
    IN  IF SelectSeq(s, IsDigit) = <<>> THEN [ok |-> FALSE, val |-> 0]
        ELSE [ok |-> TRUE,
              val |-> 1000 * DigitsValue(ip, 0)
                      + DigitsValue(SubSeq(fp, 1, n), 0) * Pow10(3 - n)]

\* Lines 253-254: price = float(group(1).replace(",", "")) if price_match
\* else 0.0.
ParsePrice(tok) ==
    LET m == PriceMatch(tok)
    IN  IF m.from = 0 THEN [ok |-> TRUE, val |-> 0]
        ELSE Float(SelectSeq(SubSeq(tok, m.from, m.to), LAMBDA ch : ch # ","))

SamplePrice == 3000 * 1000   \* approx_price of a well-formed JSON entry, in mills
TextPhone == "+91-2212345678"   \* a phone number found in the response

Hotel(n, pr, ph) == [name |-> n, price |-> pr, phone |-> ph]

\* Lines 235-239 for one entry of the parsed array: the hotel appended, or
\* the exception raised (ok = FALSE).
JsonHotel(e) ==
    CASE e = "ok" -> [ok |-> TRUE, hotel |-> Hotel("json", SamplePrice, TextPhone)]
      [] e = "no_phone" -> [ok |-> TRUE, hotel |-> Hotel("json", SamplePrice, rand_mobile)]
      [] e = "no_price" -> [ok |-> TRUE, hotel |-> Hotel("json", 0, TextPhone)]
      [] OTHER -> [ok |-> FALSE, hotel |-> Hotel("json", 0, "")]

\* Lines 230-243: the hotels of the JSON view; found = FALSE when there is
\* no match or the try block caught an exception (the code then falls
\* through to the free-text loop).
ParseHotelsJson(got_text, json) ==
    IF ~got_text \/ json.kind # "array"       \* re.search(None): TypeError, caught
    THEN [found |-> FALSE, hotels |-> <<>>]
    ELSE LET hs == [i \in 1..Len(json.entries) |-> JsonHotel(json.entries[i])]
         IN  IF \E i \in 1..Len(hs) : ~hs[i].ok
             THEN [found |-> FALSE, hotels |-> <<>>]
             ELSE [found |-> TRUE, hotels |-> [i \in 1..Len(hs) |-> hs[i].hotel]]

\* Lines 245-260: the free-text loop; a ValueError from float() is not caught.
ParseHotelsLines(lines) ==
    LET dashed == SelectSeq(lines, LAMBDA l : l.kind = "dashed")
        pr == [i \in 1..Len(dashed) |-> ParsePrice(dashed[i].tok)]
        hs == [i \in 1..Len(dashed) |->
                 Hotel("line", pr[i].val,
                       IF dashed[i].phone THEN TextPhone ELSE rand_mobile)]
    IN  IF \E i \in 1..Len(pr) : ~pr[i].ok
        THEN [kind |-> "raise", val |-> <<>>]
        ELSE IF hs = <<>> THEN [kind |-> "none", val |-> <<>>]
        ELSE [kind |-> "value", val |-> SubSeq(hs, 1, IF Len(hs) < 5 THEN Len(hs) ELSE 5)]

NoHotels == [ret |-> [kind |-> "none", val |-> <<>>], imports |-> 0, svc |-> <<>>]

call_gemini_hotel_search(key, o1, o2, text) ==
    IF ~KeyPresent(key) THEN NoHotels
    ELSE LET t == TryLibs(o1, o2)
             js == ParseHotelsJson(t.got_text, text.json)
             r == IF ~t.tried_any THEN [kind |-> "none", val |-> <<>>]
                  ELSE IF js.found THEN [kind |-> "value", val |-> js.hotels]
                  ELSE ParseHotelsLines(IF t.got_text THEN text.lines ELSE <<>>)
         IN  [ret |-> r, imports |-> t.imports, svc |-> t.svc]

(***************************************************************************)
(* Inputs                                                                  *)
(***************************************************************************)
Desc(id, len) == [id |-> id, len |-> len]
Item(d, q, r) == [desc |-> d, qty |-> q, rate |-> r]

\* Line items: the default "Room & Services" at 1000.00, a row whose amount
\* is a fraction of a cent off its display, and one with a long description.
ItemPool ==
    << Item(Desc("Room & Services", 15), 1, 1000000),
       Item(Desc("Laundry", 7), 3, 33335),
       Item(Desc("Minibar", 64), 1, 1004) >>

\* A long list: it fills two pages without a logo (24 rows, then 7) and three
\* below a tall logo (1 row, then 29, then 1).
LongLens == {31}
LongItems(n) == [i \in 1..n |-> ItemPool[((i - 1) % Len(ItemPool)) + 1]]

ItemLists ==
    SeqsUpTo({ItemPool[i] : i \in 1..Len(ItemPool)}, MaxItems)
        \cup {LongItems(n) : n \in LongLens}

GstPercents == {0, 50, 125}               \* 0 %, 5.0 % (the default), 12.5 %
BillAmounts == {0, 100000, 625000, 1000000, 1000030}
FontName == ".tmp_font_1234_uploaded_font"
TmpPath == "./.tmp_font_1234_uploaded_font.ttf"

\* Library outcomes as the function meets them: the second library is only
\* looked at when the first returned no text, and a text only when one did.
LibRuns ==
    {<<"text", Skipped>>} \cup
    {<<a, b>> : a \in LibOutcomes \ {"text"}, b \in LibOutcomes}
HasText(lr) == lr[1] = "text" \/ lr[2] = "text"

(***************************************************************************)
(* Direct invocations of the module's functions                            *)
(***************************************************************************)
Idle == pc = "idle"

Returned(c) ==
    /\ pc' = "returned"
    /\ call' = c
    /\ UNCHANGED <<apiKey, form, font_name, font_tmp_path, tmpFiles, addr,
                   hotel_phone_final, pdf_bytes, ui, path, exc>>

CallAddress ==
    /\ Idle
    /\ \E city \in Cities, lr \in LibRuns :
         \E text \in (IF KeyPresent(apiKey) /\ HasText(lr) THEN AddrTexts ELSE {<<>>}) :
           /\ KeyPresent(apiKey) \/ lr = <<"import_error", "import_error">>
           /\ LET r == call_gemini_for_address(apiKey, lr[1], lr[2], text)
              IN  Returned([fn |-> "call_gemini_for_address", city |-> city,
                            libs |-> lr, text |-> text, ret |-> r.ret,
                            imports |-> r.imports, svc |-> r.svc])

CallHotelSearch ==
    /\ Idle
    /\ \E city \in Cities, lr \in LibRuns :
         \E text \in (IF KeyPresent(apiKey) /\ HasText(lr) THEN HotelTexts ELSE {NoText}) :
           /\ KeyPresent(apiKey) \/ lr = <<"import_error", "import_error">>
           /\ LET r == call_gemini_hotel_search(apiKey, lr[1], lr[2], text)
              IN  Returned([fn |-> "call_gemini_hotel_search", city |-> city,
                            libs |-> lr, text |-> text, ret |-> r.ret,
                            imports |-> r.imports, svc |-> r.svc])

CallFallbackHotels ==
    /\ Idle
    /\ \E city \in Cities, bill \in BillAmounts, us \in [1..3 -> UniformSamples] :
         Returned([fn |-> "fallback_hotel_suggestions", city |-> city,
                   bill_amount |-> bill, us |-> us,
                   ret |-> fallback_hotel_suggestions(city, bill, us)])

CallCreatePdf ==
    /\ Idle
    /\ \E items \in ItemLists, gst \in GstPercents, fname \in {None, FontName},
          logo \in Logos, fault \in DrawFaults :
         Returned([fn |-> "create_pdf_bytes", items |-> items, gst_percent |-> gst,
                   font_name |-> fname, logo_file |-> logo, fault |-> fault,
                   ret |-> create_pdf_bytes(items, gst, fname, logo, fault)])

(***************************************************************************)
(* The form submission ("if submitted:", lines 478-561)                    *)
(***************************************************************************)
FontFiles == {"none", "valid", "invalid"}
PhoneInputs == {"", " ", "022-5550100"}
FormBills == {0, 1000000}
\* hotel_phone_input.strip()
Strip(p) == IF p = " " THEN "" ELSE p

\* One line of the "Custom items" text area as line.split(",") sees it: the
\* description and the fields after it, each field a sequence of characters.
RawLine(d, fields) == [desc |-> d, fields |-> fields]

DecDigits == {"0", "1", "3"}
DigitVal(ch) == IF ch = "0" THEN 0 ELSE IF ch = "1" THEN 1 ELSE 3

\* p.strip()
RECURSIVE LStrip(_)
LStrip(s) == IF s # <<>> /\ Head(s) = " " THEN LStrip(Tail(s)) ELSE s
RECURSIVE RStrip(_)
RStrip(s) ==
    IF s # <<>> /\ s[Len(s)] = " " THEN RStrip(SubSeq(s, 1, Len(s) - 1)) ELSE s
FieldStrip(s) == RStrip(LStrip(s))

RECURSIVE DecValue(_, _)
DecValue(s, acc) ==
    IF s = <<>> THEN acc ELSE DecValue(Tail(s), 10 * acc + DigitVal(Head(s)))

Signed(s) == s # <<>> /\ Head(s) \in {"-", "+"}
Unsigned(s) == IF Signed(s) THEN Tail(s) ELSE s
SignOf(s) == IF s # <<>> /\ Head(s) = "-" THEN -1 ELSE 1
AllDigits(s) == \A i \in DOMAIN s : s[i] \in DecDigits

\* int(s): an optional sign and one or more digits; anything else is a
\* ValueError (ok = FALSE).  The sign is kept: int("-1") is -1, int("0") is 0.
PyInt(s) ==
    LET b == Unsigned(s)
    IN  IF b # <<>> /\ AllDigits(b)
        THEN [ok |-> TRUE, val |-> SignOf(s) * DecValue(b, 0)]
        ELSE [ok |-> FALSE, val |-> 0]

\* float(s) for decimal notation: an optional sign, digits and at most one
\* full stop with a digit on either side of it; the value in mills.
PyFloat(s) ==
    LET b == Unsigned(s)
        dot == FirstIdx(b, {"."}, 1)
        ip == IF dot = 0 THEN b ELSE SubSeq(b, 1, dot - 1)
        fp == IF dot = 0 THEN <<>> ELSE SubSeq(b, dot + 1, Len(b))
        n == IF Len(fp) < 3 THEN Len(fp) ELSE 3
    IN  IF (ip \o fp) # <<>> /\ AllDigits(ip) /\ AllDigits(fp)
        THEN [ok |-> TRUE,
              val |-> SignOf(s) * (1000 * DecValue(ip, 0)
                         + DecValue(SubSeq(fp, 1, n), 0) * Pow10(3 - n))]
        ELSE [ok |-> FALSE, val |-> 0]

\* Lines 467-473 for one line: with three or more parts the item is appended
\* unless int() or float() raises; nothing else is tested.
ParseLine(line) ==
    IF Len(line.fields) + 1 >= 3
    THEN LET q == PyInt(FieldStrip(line.fields[1]))
             r == PyFloat(FieldStrip(line.fields[2]))
         IN  IF q.ok /\ r.ok THEN << Item(line.desc, q.val, r.val) >> ELSE <<>>
    ELSE <<>>

\* The loop "for line in raw_items.strip().splitlines()".
RECURSIVE ParseItems(_)
ParseItems(lines) ==
    IF lines = <<>> THEN <<>>
    ELSE ParseLine(Head(lines)) \o ParseItems(Tail(lines))

\* Lines the user can type: "Laundry,3,33.335", "Minibar ...,1,1.004",
\* " Tea , 1 , 10. ,note", and lines with a part missing, a quantity or rate
\* that is not a number, a zero or negative quantity, a negative rate.
LaundryLine == RawLine(Desc("Laundry", 7), << <<"3">>, <<"3", "3", ".", "3", "3">> >>)
MinibarLine == RawLine(Desc("Minibar", 64), << <<"1">>, <<"1", ".", "0", "0", "4">> >>)
SpacedLine ==
    RawLine(Desc("Tea", 3), << <<" ", "1", " ">>, <<" ", "1", "0", ".">>, <<"x">> >>)
ShortLine == RawLine(Desc("Towels", 6), << <<"1">> >>)
BlankLine == RawLine(Desc("", 0), <<>>)
BadQtyLine == RawLine(Desc("Taxi", 4), << <<"1", ".", "3">>, <<"1", "0", "0">> >>)
BadRateLine == RawLine(Desc("Spa", 3), << <<"1">>, <<"x">> >>)
ZeroQtyLine == RawLine(Desc("Water", 5), << <<"0">>, <<"3", "0">> >>)
NegQtyLine == RawLine(Desc("Refund", 6), << <<"-", "1">>, <<"1", "0", "0">> >>)
NegRateLine == RawLine(Desc("Discount", 8), << <<"1">>, <<"-", "3", "0">> >>)

\* Contents of the "Custom items" text area.
RawItemTexts ==
    { <<>>,
      <<LaundryLine, MinibarLine>>,
      <<ShortLine, SpacedLine, BlankLine>>,
      <<LaundryLine, BadQtyLine, BadRateLine, MinibarLine>>,
      <<ZeroQtyLine, LaundryLine>>,
      <<LaundryLine, NegQtyLine>>,
      <<NegRateLine>> }

\* Lines 462-474: the items of the form; without "Add extra items" a single
\* item of quantity 1 at the bill amount.
DefaultItems(bill_amount) == << Item(Desc("Room & Services", 15), 1, bill_amount) >>
FormItems(add_custom_items, raw_items, bill_amount) ==
    IF add_custom_items THEN ParseItems(raw_items) ELSE DefaultItems(bill_amount)

ItemInputs ==
    {[add_custom_items |-> FALSE, raw_items |-> <<>>]}
        \cup [add_custom_items : {TRUE}, raw_items : RawItemTexts]

Forms ==
    {[submitted |-> TRUE, force_fallback |-> ff, hotel_phone_input |-> ph,
      font_file |-> ft, city |-> c, bill_amount |-> b,
      add_custom_items |-> ii.add_custom_items, raw_items |-> ii.raw_items,
      items |-> FormItems(ii.add_custom_items, ii.raw_items, b)] :
        ff \in BOOLEAN, ph \in PhoneInputs, ft \in FontFiles, c \in Cities,
        b \in FormBills, ii \in ItemInputs}

FormLogos == {NoLogo, BadLogo, [kind |-> "image", h |-> 40]}
FormGstPercents == {0, 50}

\* The form is submitted and the script reruns with submitted = True.
Submit ==
    /\ Idle
    /\ \E f \in Forms : form' = f
    /\ pc' = "font"
    /\ UNCHANGED <<apiKey, font_name, font_tmp_path, tmpFiles, addr,
                   hotel_phone_final, pdf_bytes, ui, path, exc, call>>

\* register_font_from_bytes (lines 274-287): the bytes are staged at a
\* temporary path; when registration raises, the file is removed and the
\* exception re-raised.  os.remove itself is taken to succeed.
register_font_from_bytes(font_file, files) ==
    IF font_file = "valid"
    THEN [status |-> "ok", name |-> FontName, path |-> TmpPath,
          files |-> files \cup {TmpPath}]
    ELSE [status |-> "raise", name |-> None, path |-> None,
          files |-> (files \cup {TmpPath}) \ {TmpPath}]

\* Lines 480-489.
RegisterFont ==
    /\ pc = "font"
    /\ pc' = "addr"
    /\ IF form.font_file = "none"
       THEN UNCHANGED <<font_name, font_tmp_path, tmpFiles, ui>>
       ELSE LET r == register_font_from_bytes(form.font_file, tmpFiles)
            IN  /\ tmpFiles' = r.files
                /\ font_name' = r.name
                /\ font_tmp_path' = r.path
                /\ ui' = Append(ui, IF r.status = "ok" THEN "success: Registered font"
                                    ELSE "error: Could not register font")
    /\ UNCHANGED <<apiKey, form, addr, hotel_phone_final, pdf_bytes, path, exc, call>>

\* Lines 493 and 511: "(not force_fallback) and os.environ.get(KEY)".
UseGemini_ToggleOnly(force_fallback, key) == ~force_fallback

UseGemini(force_fallback, key) == ~force_fallback /\ KeyPresent(key)

\* Everything call_gemini_for_address / call_gemini_hotel_search can hand
\* back to the script under a credential state, over all library outcomes
\* and response texts.
AddressOutcomes ==
    [k \in KeyStates |->
       UNION {{call_gemini_for_address(k, lr[1], lr[2], text).ret :
                 text \in (IF HasText(lr) THEN AddrTexts ELSE {<<>>})} :
              lr \in LibRuns}]

HotelSearchOutcomes ==
    [k \in KeyStates |->
       UNION {{call_gemini_hotel_search(k, lr[1], lr[2], text).ret :
                 text \in (IF HasText(lr) THEN HotelTexts ELSE {NoText})} :
              lr \in LibRuns}]

\* Lines 491-503.
ResolveAddress ==
    /\ pc = "addr"
    /\ pc' = "phone"
    /\ IF UseGemini(form.force_fallback, apiKey)
       THEN \E r \in AddressOutcomes[apiKey] :
              IF r.kind = "value" /\ r.val # ""
              THEN /\ addr' = [kind |-> "gemini", text |-> r.val]
                   /\ path' = Append(path, "call_gemini_for_address")
              ELSE /\ addr' = get_random_address(form.city)
                   /\ path' = path \o <<"call_gemini_for_address",
                                         "get_random_address">>
       ELSE /\ addr' = get_random_address(form.city)
            /\ path' = Append(path, "get_random_address")
    /\ UNCHANGED <<apiKey, form, font_name, font_tmp_path, tmpFiles,
                   hotel_phone_final, pdf_bytes, ui, exc, call>>

\* Lines 522-525 once the search handed back `found` (a sequence of hotels,
\* empty for None and for a caught exception): the fallback generator when
\* needed, then chosen = random.choice(hotels) and its phone.
PhoneChoices(found, city, bill_amount) ==
    IF found # <<>>
    THEN {[status |-> "ok", phone |-> found[i].phone, fallback |-> FALSE] :
            i \in 1..Len(found)}
    ELSE UNION {LET fb == fallback_hotel_suggestions(city, bill_amount, us)
                IN  IF fb.status = "raise"
                    THEN {[status |-> "raise", phone |-> "", fallback |-> TRUE]}
                    ELSE {[status |-> "ok", phone |-> fb.out[i].phone,
                           fallback |-> TRUE] : i \in 1..3} :
                us \in [1..3 -> UniformSamples]}

PhoneResolved(searched, p) ==
    /\ path' = path \o (IF searched THEN <<"call_gemini_hotel_search">> ELSE <<>>)
                    \o (IF p.fallback THEN <<"fallback_hotel_suggestions">> ELSE <<>>)
    /\ IF p.status = "raise"
       THEN /\ pc' = "raised"
            /\ exc' = "IndexError"
            /\ UNCHANGED hotel_phone_final
       ELSE /\ pc' = "pdf"
            /\ hotel_phone_final' = IF p.phone # "" THEN p.phone ELSE rand_mobile
            /\ UNCHANGED exc

\* Lines 504-526.
ResolvePhone ==
    /\ pc = "phone"
    /\ IF Strip(form.hotel_phone_input) # ""
       THEN /\ pc' = "pdf"
            /\ hotel_phone_final' = Strip(form.hotel_phone_input)
            /\ UNCHANGED <<path, exc>>
       ELSE IF UseGemini(form.force_fallback, apiKey)
       THEN \E r \in HotelSearchOutcomes[apiKey] :
              \E p \in PhoneChoices(IF r.kind = "value" THEN r.val ELSE <<>>,
                                    form.city, form.bill_amount) :
                PhoneResolved(TRUE, p)
       ELSE \E p \in PhoneChoices(<<>>, form.city, form.bill_amount) :
              PhoneResolved(FALSE, p)
    /\ UNCHANGED <<apiKey, form, font_name, font_tmp_path, tmpFiles, addr,
                   pdf_bytes, ui, call>>

\* Lines 528-550: create_pdf_bytes inside try; the handler reports the
\* error and re-raises.
GeneratePdf_Swallow ==
    /\ pc = "pdf"
    /\ \E gst \in FormGstPercents, logo \in FormLogos, fault \in DrawFaults :
         LET r == create_pdf_bytes(form.items, gst, font_name, logo, fault)
         IN  IF r.status = "ok"
             THEN /\ pdf_bytes' = r
                  /\ pc' = "download"
                  /\ UNCHANGED <<ui, exc>>
             ELSE /\ ui' = Append(ui, "error: Failed to generate PDF")
                  /\ pc' = "download"
                  /\ UNCHANGED <<pdf_bytes, exc>>
    /\ path' = Append(path, "create_pdf_bytes")
    /\ UNCHANGED <<apiKey, form, font_name, font_tmp_path, tmpFiles, addr,
                   hotel_phone_final, call>>

GeneratePdf ==
    /\ pc = "pdf"
    /\ \E gst \in FormGstPercents, logo \in FormLogos, fault \in DrawFaults :
         LET r == create_pdf_bytes(form.items, gst, font_name, logo, fault)
         IN  IF r.status = "ok"
             THEN /\ pdf_bytes' = r
                  /\ pc' = "download"
                  /\ UNCHANGED <<ui, exc>>
             ELSE /\ ui' = Append(ui, "error: Failed to generate PDF")
                  /\ pc' = "raised"
                  /\ exc' = "RenderError"
                  /\ UNCHANGED pdf_bytes
    /\ path' = Append(path, "create_pdf_bytes")
    /\ UNCHANGED <<apiKey, form, font_name, font_tmp_path, tmpFiles, addr,
                   hotel_phone_final, call>>

\* Lines 552-554.
OfferDownload ==
    /\ pc = "download"
    /\ pc' = "cleanup"
    /\ ui' = ui \o <<"success: PDF generated!", "download_button">>
    /\ UNCHANGED <<apiKey, form, font_name, font_tmp_path, tmpFiles, addr,
                   hotel_phone_final, pdf_bytes, path, exc, call>>

\* Lines 556-561.
CleanupFont ==
    /\ pc = "cleanup"
    /\ pc' = "done"
    /\ tmpFiles' = IF font_tmp_path # None THEN tmpFiles \ {font_tmp_path}
                   ELSE tmpFiles
    /\ UNCHANGED <<apiKey, form, font_name, font_tmp_path, addr,
                   hotel_phone_final, pdf_bytes, ui, path, exc, call>>

(***************************************************************************)
(* Specification                                                           *)
(***************************************************************************)
Init ==
    /\ pc = "idle"
    /\ apiKey \in KeyStates
    /\ form = NoForm
    /\ font_name = None
    /\ font_tmp_path = None
    /\ tmpFiles = {}
    /\ addr = NoAddr
    /\ hotel_phone_final = None
    /\ pdf_bytes = NoPdf
    /\ ui = <<>>
    /\ path = <<>>
    /\ exc = None
    /\ call = NoCall

Next ==
    \/ Submit
    \/ RegisterFont
    \/ ResolveAddress
    \/ ResolvePhone
    \/ GeneratePdf
    \/ OfferDownload
    \/ CleanupFont
    \/ CallAddress
    \/ CallHotelSearch
    \/ CallFallbackHotels
    \/ CallCreatePdf

Spec == Init /\ [][Next]_vars

(***************************************************************************)
(* Properties                                                              *)
(***************************************************************************)
Shown(msg) == \E i \in DOMAIN ui : ui[i] = msg
Called(f) == \E i \in DOMAIN path : path[i] = f
IsCall(f) == pc = "returned" /\ call.fn = f
EnrichmentCall ==
    IsCall("call_gemini_for_address") \/ IsCall("call_gemini_hotel_search")
PdfReturned == IsCall("create_pdf_bytes") /\ call.ret.status = "ok"
HotelsReturned == IsCall("fallback_hotel_suggestions") /\ call.ret.status = "ok"

RECURSIVE SumAmounts(_)
SumAmounts(items) ==
    IF items = <<>> THEN 0
    ELSE items[1].qty * items[1].rate + SumAmounts(Tail(items))

RECURSIVE SumShown(_)
SumShown(rows) ==
    IF rows = <<>> THEN 0 ELSE rows[1].amount + SumShown(Tail(rows))

\* C1: on the exit paths the claim lists (the script ran to its end, or PDF
\* generation raised; with the font registered or its registration failed),
\* no staged font file is left on disk.
C1_TempFileDeletedOnExit ==
    (pc = "done" \/ (pc = "raised" /\ exc = "RenderError")) => tmpFiles = {}

\* C2: call_gemini_for_address and call_gemini_hotel_search return a result
\* or None and never raise, for every credential state, library outcome and
\* response text.
C2_EnrichmentNeverRaises ==
    EnrichmentCall => call.ret.kind \in {"none", "value"}

\* C3: create_pdf_bytes draws exactly one row per item, in input order, with
\* serial numbers 1..N, each row further down the document than the one
\* before it (a later page, or lower on the same page).
C3_OneRowPerItemInOrder ==
    PdfReturned =>
      LET rows == call.ret.rows
          items == call.items
      IN  /\ Len(rows) = Len(items)
          /\ \A k \in 1..Len(rows) :
               /\ rows[k].sl = k
               /\ rows[k].desc.id = items[k].desc.id
               /\ rows[k].qty = items[k].qty
               /\ rows[k].rate = money(items[k].rate)
          /\ \A k \in 1..(Len(rows) - 1) :
               \/ rows[k + 1].page = rows[k].page /\ rows[k + 1].y < rows[k].y
               \/ rows[k + 1].page = rows[k].page + 1
          /\ call.ret.pages >= (IF rows = <<>> THEN 1 ELSE rows[Len(rows)].page)

\* A list that needed two page breaks was drawn in full.
C3_Witness ==
    PdfReturned /\ call.ret.pages >= 3 /\ Len(call.ret.rows) = 31

\* C4: the tax amount is subtotal x tax_percent / 100 to the nearest cent and
\* the grand total is subtotal + tax to the nearest cent; one item of
\* quantity 1 at 1000.00 and 5.0 percent gives 1000.00, 50.00 and 1050.00.
C4_TaxAndGrandTotal ==
    PdfReturned =>
      LET r == call.ret
      IN  /\ r.gst_amount % 10 = 0
          /\ Abs(1000 * r.gst_amount - r.subtotal * call.gst_percent) <= 5000
          /\ r.grand_total % 10 = 0
          /\ Abs(r.grand_total - (r.subtotal + r.gst_amount)) <= 5
          /\ (call.items = <<ItemPool[1]>> /\ call.gst_percent = 50) =>
               /\ r.subtotal_shown = 1000000
               /\ r.gst_amount = 50000
               /\ r.grand_total = 1050000

\* The example of the claim, and a tax that had to be rounded up.
C4_Witness ==
    /\ PdfReturned
    /\ \/ call.items = <<ItemPool[1]>> /\ call.gst_percent = 50
       \/ 1000 * call.ret.gst_amount > call.ret.subtotal * call.gst_percent

\* C5: the subtotal is the sum of quantity x rate over all items, carried
\* across page breaks; as displayed it is within one cent per item of the
\* sum of the displayed row amounts, and an empty list gives zero.
C5_SubtotalIsSum ==
    PdfReturned =>
      LET r == call.ret
      IN  /\ r.subtotal = SumAmounts(call.items)
          /\ Abs(r.subtotal_shown - SumShown(r.rows)) <= 10 * Len(call.items)
          /\ call.items = <<>> => r.subtotal = 0 /\ r.subtotal_shown = 0

\* Several pages, and a displayed subtotal that differs from the sum of the
\* displayed rows.
C5_Witness ==
    /\ PdfReturned
    /\ call.ret.pages >= 2
    /\ call.ret.subtotal_shown # SumShown(call.ret.rows)

\* The helpers the script calls, in order, when it uses synthetic data only.
SyntheticPath ==
    (IF pc \in {"idle", "font", "addr"} THEN <<>> ELSE <<"get_random_address">>)
    \o (IF pc \in {"idle", "font", "addr", "phone"}
           \/ Strip(form.hotel_phone_input) # ""
        THEN <<>> ELSE <<"fallback_hotel_suggestions">>)
    \o (IF pc \in {"download", "cleanup", "done"} \/ exc = "RenderError"
        THEN <<"create_pdf_bytes">> ELSE <<>>)

\* C6: without the credential both enrichment functions return None without
\* importing a library or calling the service, and the script then does what
\* it does with the skip toggle set: the same helper calls in the same order,
\* the synthetic address and a synthetic or user-given phone.
C6_NoCredentialIsFallback ==
    /\ (EnrichmentCall /\ ~KeyPresent(apiKey)) =>
         /\ call.ret.kind = "none"
         /\ call.imports = 0
         /\ call.svc = <<>>
    /\ (form.submitted /\ (~KeyPresent(apiKey) \/ form.force_fallback)) =>
         /\ path = SyntheticPath
         /\ pc \in {"phone", "pdf", "download", "cleanup", "done", "raised"} =>
              addr = get_random_address(form.city)
         /\ pc \in {"pdf", "download", "cleanup", "done"} =>
              hotel_phone_final =
                 (IF Strip(form.hotel_phone_input) # ""
                  THEN Strip(form.hotel_phone_input) ELSE rand_mobile)

\* A run to the end without credential, toggle or phone.
C6_Witness ==
    /\ pc = "done"
    /\ ~KeyPresent(apiKey)
    /\ ~form.force_fallback
    /\ Strip(form.hotel_phone_input) = ""

\* C7 as claimed: one invocation of an enrichment function makes at most one
\* request to the generative-text service.
C7_AtMostOneAttempt ==
    EnrichmentCall => Len(call.svc) <= 1

\* C7 as amended: one invocation makes at most one request through each
\* client library, google.genai first, and one through google.generativeai
\* only when google.genai produced no text.
C7_OncePerLibrary ==
    EnrichmentCall =>
      /\ call.svc \in {<<>>, <<Lib1>>, <<Lib2>>, <<Lib1, Lib2>>}
      /\ (\E i \in DOMAIN call.svc : call.svc[i] = Lib2) => call.libs[1] # "text"
      /\ call.libs[1] = "text" => call.svc = <<Lib1>>

\* A request through the second library after the first request failed.
C7_Witness ==
    EnrichmentCall /\ call.svc = <<Lib1, Lib2>> /\ call.libs[1] = "generate_error"

\* C8: every item row is drawn at a vertical position not below the
\* low-water mark, for every item count and every logo height.
C8_RowsAboveLowWaterMark ==
    PdfReturned => \A k \in DOMAIN call.ret.rows : call.ret.rows[k].y >= LowWaterMark

C10_NoDownloadAfterFailure ==
    /\ (IsCall("create_pdf_bytes") /\ call.fault # "none") =>
         call.ret = [status |-> "raise"]
    /\ (Called("create_pdf_bytes") /\ pdf_bytes = NoPdf) =>
         /\ pc = "raised"
         /\ exc = "RenderError"
         /\ Shown("error: Failed to generate PDF")
         /\ ~Shown("download_button")
    /\ Shown("download_button") =>
         /\ pdf_bytes.status = "ok"
         /\ ~Shown("error: Failed to generate PDF")

\* PDF generation raised in a submission.
C10_Witness ==
    pc = "raised" /\ exc = "RenderError" /\ Called("create_pdf_bytes")

\* The items the script handed to create_pdf_bytes in this submission.
ItemsPassed == IF Called("create_pdf_bytes") THEN form.items ELSE <<>>

\* A line that yields an item of the InvoiceLineItem kind: three or more
\* parts, an integer quantity above zero and a decimal rate not below zero.
WellFormedLine(line) ==
    /\ Len(line.fields) + 1 >= 3
    /\ PyInt(FieldStrip(line.fields[1])).ok
    /\ PyFloat(FieldStrip(line.fields[2])).ok
    /\ PyInt(FieldStrip(line.fields[1])).val > 0
    /\ PyFloat(FieldStrip(line.fields[2])).val >= 0

ItemOf(line) ==
    Item(line.desc, PyInt(FieldStrip(line.fields[1])).val,
         PyFloat(FieldStrip(line.fields[2])).val)

RECURSIVE ItemsOf(_)
ItemsOf(lines) ==
    IF lines = <<>> THEN <<>> ELSE <<ItemOf(Head(lines))>> \o ItemsOf(Tail(lines))

\* C11: every item passed to create_pdf_bytes has a quantity above zero and
\* a rate not below zero; with custom lines, the items are those of the
\* well-formed lines in input order, every other line being skipped.
C11_ItemsWellFormed ==
    /\ \A i \in DOMAIN ItemsPassed :
         ItemsPassed[i].qty > 0 /\ ItemsPassed[i].rate >= 0
    /\ (form.submitted /\ form.add_custom_items) =>
         form.items = ItemsOf(SelectSeq(form.raw_items, WellFormedLine))

\* C12: a submission that uses synthetic data only (no credential, or the
\* skip toggle set) does not end in an exception before create_pdf_bytes is
\* called, whatever the city and the phone field, and calls it with an
\* address and a phone number that are not empty.
C12_SyntheticReachesPdf ==
    (form.submitted /\ ~UseGemini(form.force_fallback, apiKey)) =>
        /\ pc = "raised" => Called("create_pdf_bytes")
        /\ Called("create_pdf_bytes") =>
             /\ addr.kind \in {"placeholder", "curated", "templated"}
             /\ hotel_phone_final \notin {None, ""}

====
